---- MODULE Spec2Model ----
(***************************************************************************)
(* A model of the MOAC Chain3 JSON-RPC client (src/options.go): the        *)
(* dispatcher MoacRPC.Call, the helper MoacRPC.call and the typed          *)
(* accessors built on them, run by one or more goroutines against one      *)
(* client, an injected transport and an injected logger.                   *)
(*                                                                         *)
(* Every Go value, every JSON value and every byte string is a record of   *)
(* one shape, [k, s, n, a]: k is its kind, s a string payload, n an        *)
(* integer payload and a the sequence of its parts.  Go kinds are          *)
(* capitalised ("String", "NilSlice"), JSON kinds are lower case           *)
(* ("string", "null"), so that encoding and decoding are conversions.      *)
(***************************************************************************)
EXTENDS Integers, Sequences, FiniteSets, TLC

VARIABLES rpc, callers, pc, inv, reply, data, cret, ret, sent, logged, crashed

vars == <<rpc, callers, pc, inv, reply, data, cret, ret, sent, logged, crashed>>

(***************************************************************************)
(* Bounds of the model.                                                    *)
(***************************************************************************)
\* the longest parameter list a direct caller of Call/RawCall passes
MaxParams == 2
\* the largest integer argument (block number, index, position) a caller passes
MaxInt == 1

V(k, s, n, a) == [k |-> k, s |-> s, n |-> n, a |-> a]

(***************************************************************************)
(* Go values.                                                              *)
(***************************************************************************)
GoString(s) == V("String", s, 0, <<>>)
GoBool(b) == V("Bool", IF b THEN "true" ELSE "false", 0, <<>>)
GoInt(n) == V("Int", "", n, <<>>)
GoBigInt(n) == V("BigInt", "", n, <<>>)
\* a struct value: its type, and whether its fields were populated (n = 1)
\* from a JSON object or are all zero (n = 0)
GoStruct(type, populated) == V("Struct", type, IF populated THEN 1 ELSE 0, <<>>)
\* a value json.Marshal cannot serialize (a channel, a function)
GoChan == V("Chan", "", 0, <<>>)
NilSlice == V("NilSlice", "", 0, <<>>)
Slice(elems) == V("Slice", "", 0, elems)
NilPtr == V("NilPtr", "", 0, <<>>)
Ptr(v) == V("Ptr", "", 0, <<v>>)
NilRaw == V("NilRaw", "", 0, <<>>)
\* a json.RawMessage holding the bytes of the JSON value j
RawMessage(j) == V("Raw", "", 0, <<j>>)
NilResponse == V("NilResponse", "", 0, <<>>)

(***************************************************************************)
(* Errors.                                                                 *)
(***************************************************************************)
Err(kind, code, message) == [kind |-> kind, code |-> code, message |-> message]
NoErr == Err("nil", 0, "")
SyntaxError == Err("json.SyntaxError", 0, "")
UnmarshalTypeError == Err("json.UnmarshalTypeError", 0, "")
UnsupportedTypeError == Err("json.UnsupportedTypeError", 0, "")
ReadError == Err("io.ReadError", 0, "")
ParseError == Err("strconv.NumError", 0, "")

MoacError(code, message) == Err("MoacError", code, message)

(***************************************************************************)
(* JSON values, as they appear in request and response bodies.             *)
(***************************************************************************)
JNull == V("null", "", 0, <<>>)
JFalse == V("false", "", 0, <<>>)
JTrue == V("true", "", 0, <<>>)
JString(s) == V("string", s, 0, <<>>)
JNumber(n) == V("number", "", n, <<>>)
JArray(elems) == V("array", "", 0, elems)
\* an object, abstracted to whether its members decode ("ok") or hold a
\* malformed field ("bad")
JObject(label) == V("object", label, 0, <<>>)
\* a member that is not present in its object
Absent == V("absent", "", 0, <<>>)
\* the object {"code": code, "message": message}
JErrorObject(code, message) == V("errobj", message, code, <<>>)
\* a response body {"id":1,"jsonrpc":"2.0","result":result,"error":error}
JEnvelope(result, error) == V("envelope", "", 0, <<result, error>>)
\* a body that is not JSON
Malformed == V("malformed", "", 0, <<>>)

(***************************************************************************)
(* Numeric codec.                                                          *)
(***************************************************************************)
\* the largest integer a hexadecimal string from the node decodes to
MaxNative == 40

HexDigit == <<"0", "1", "2", "3", "4", "5", "6", "7",
              "8", "9", "a", "b", "c", "d", "e", "f">>

RECURSIVE Hex(_)
Hex(n) == IF n < 16 THEN HexDigit[n + 1]
          ELSE Hex(n \div 16) \o HexDigit[(n % 16) + 1]

\* IntToHex(n): "0x" and the lower-case hexadecimal digits of n >= 0
IntToHex(n) == "0x" \o Hex(n)

\* ParseInt(s): the integer a 0x-prefixed hexadecimal string stands for, or
\* zero and an error for any other string
ParseInt(s) ==
    IF \E n \in 0..MaxNative : IntToHex(n) = s
    THEN [val |-> GoInt(CHOOSE n \in 0..MaxNative : IntToHex(n) = s), err |-> NoErr]
    ELSE [val |-> GoInt(0), err |-> ParseError]

\* ParseBigInt(s): as ParseInt, into an arbitrary-precision integer
ParseBigInt(s) ==
    IF \E n \in 0..MaxNative : IntToHex(n) = s
    THEN [val |-> GoBigInt(CHOOSE n \in 0..MaxNative : IntToHex(n) = s), err |-> NoErr]
    ELSE [val |-> GoBigInt(0), err |-> ParseError]

(***************************************************************************)
(* Envelope codec: json.Marshal of an ethRequest and json.Unmarshal of a   *)
(* response body into an ethResponse.                                      *)
(***************************************************************************)
\* the parameter slice of a variadic call: nil when no argument is passed
Variadic(args) == IF args = <<>> THEN NilSlice ELSE Slice(args)

Serializable(v) == v.k # "Chan"

\* json.Marshal of one parameter value
MarshalValue(v) ==
    CASE v.k = "String" -> JString(v.s)
      [] v.k = "Bool" -> IF v.s = "true" THEN JTrue ELSE JFalse
      [] v.k = "Struct" -> JObject(v.s)
      [] OTHER -> JNull

\* MarshalSlice with a nil slice encoded like an empty one
MarshalSliceEmptyArray(params) ==
    JArray([i \in 1..Len(params.a) |-> MarshalValue(params.a[i])])

\* json.Marshal of a []interface{}: a nil slice is null, any other an array
MarshalSlice(params) ==
    IF params = NilSlice THEN JNull
    ELSE JArray([i \in 1..Len(params.a) |-> MarshalValue(params.a[i])])

ethRequest(id, jsonrpc, method, params) ==
    [ID |-> id, JSONRPC |-> jsonrpc, Method |-> method, Params |-> params]

\* json.Marshal(request): the members in the order of the struct's fields
Marshal(request) ==
    IF \E i \in 1..Len(request.Params.a) : ~Serializable(request.Params.a[i])
    THEN [val |-> Absent, err |-> UnsupportedTypeError]
    ELSE [val |-> V("request", "", 0,
                    <<JNumber(request.ID), JString(request.JSONRPC),
                      JString(request.Method), MarshalSlice(request.Params)>>),
          err |-> NoErr]

ethResponse(result, error) == [Result |-> result, Error |-> error]

\* json.Unmarshal(data, resp) for resp a new(ethResponse): the Result member
\* is kept as raw bytes (those of null included), the Error member is a
\* pointer left nil by an absent or null member
UnmarshalResponse(body) ==
    CASE body.k = "malformed" ->
           [val |-> ethResponse(NilRaw, NilPtr), err |-> SyntaxError]
      [] body.k = "null" ->
           [val |-> ethResponse(NilRaw, NilPtr), err |-> NoErr]
      [] body.k = "envelope" ->
           LET r == body.a[1]
               e == body.a[2]
               Result == IF r = Absent THEN NilRaw ELSE RawMessage(r)
           IN  CASE e.k \in {"absent", "null"} ->
                      [val |-> ethResponse(Result, NilPtr), err |-> NoErr]
                 [] e.k = "errobj" ->
                      [val |-> ethResponse(Result, Ptr(V("MoacError", e.s, e.n, <<>>))),
                       err |-> NoErr]
                 [] OTHER ->
                      [val |-> ethResponse(Result, NilPtr), err |-> UnmarshalTypeError]
      [] OTHER ->
           [val |-> ethResponse(NilRaw, NilPtr), err |-> UnmarshalTypeError]


(***************************************************************************)
(* Typed decoding: json.Unmarshal(result, target) of a raw result into     *)
(* the target a typed accessor passes to call.  A target is named by its   *)
(* Go type; init is what the target holds before the call.                 *)
(***************************************************************************)
StructTargets == {"Syncing", "Transaction", "TransactionReceipt",
                  "proxyBlockWithTransactions", "proxyBlockWithoutTransactions"}

ElemType(target) == IF target = "[]string" THEN "string" ELSE "Log"

\* the zero value of a type
Zero(type) ==
    CASE type = "string" -> GoString("")
      [] type = "bool" -> GoBool(FALSE)
      [] type \in {"[]string", "[]Log"} -> NilSlice
      [] type = "int" -> GoInt(0)
      [] type = "big.Int" -> GoBigInt(0)
      [] type = "json.RawMessage" -> NilRaw
      [] type \in {"*Syncing", "*Transaction", "*TransactionReceipt", "*Block"} -> NilPtr
      [] OTHER -> GoStruct(type, FALSE)

\* the UnmarshalJSON of the entity types (Syncing, Transaction,
\* TransactionReceipt, Log, the two proxy blocks): an object whose members
\* decode populates the struct, one with a malformed member is an error
UnmarshalStruct(j, type, init) ==
    CASE j.k = "object" /\ j.s = "ok" -> [val |-> GoStruct(type, TRUE), err |-> NoErr]
      [] j.k = "object" -> [val |-> init, err |-> ParseError]
      [] j.k = "null" -> [val |-> init, err |-> NoErr]
      [] OTHER -> [val |-> init, err |-> UnmarshalTypeError]

\* json.Unmarshal of one JSON value into a string, a bool or a struct
UnmarshalValue(j, type, init) ==
    CASE type = "string" ->
           IF j.k = "string" THEN [val |-> GoString(j.s), err |-> NoErr]
           ELSE IF j.k = "null" THEN [val |-> init, err |-> NoErr]
           ELSE [val |-> init, err |-> UnmarshalTypeError]
      [] type = "bool" ->
           IF j.k \in {"true", "false"}
           THEN [val |-> GoBool(j.k = "true"), err |-> NoErr]
           ELSE IF j.k = "null" THEN [val |-> init, err |-> NoErr]
           ELSE [val |-> init, err |-> UnmarshalTypeError]
      [] OTHER -> UnmarshalStruct(j, type, init)

\* the first error of a sequence of decodings, nil when there is none
FirstErr(ds) ==
    IF \E i \in 1..Len(ds) : ds[i].err # NoErr
    THEN ds[CHOOSE i \in 1..Len(ds) :
                /\ ds[i].err # NoErr
                /\ \A h \in 1..(i - 1) : ds[h].err = NoErr].err
    ELSE NoErr

\* json.Unmarshal(result, target): empty input is a syntax error; null sets
\* a slice to nil and leaves anything else alone; an array fills a slice
\* element by element, an element that does not decode staying zero
Unmarshal(raw, target, init) ==
    IF raw = NilRaw THEN [val |-> init, err |-> SyntaxError]
    ELSE LET j == raw.a[1] IN
         IF target \in {"[]string", "[]Log"}
         THEN CASE j.k = "null" -> [val |-> NilSlice, err |-> NoErr]
                [] j.k = "array" ->
                     LET ds == [i \in 1..Len(j.a) |->
                                  UnmarshalValue(j.a[i], ElemType(target),
                                                 Zero(ElemType(target)))]
                     IN  [val |-> Slice([i \in 1..Len(ds) |-> ds[i].val]),
                          err |-> FirstErr(ds)]
                [] OTHER -> [val |-> init, err |-> UnmarshalTypeError]
         ELSE UnmarshalValue(j, target, init)

\* proxyBlock.toBlock(): the Block of a decoded proxy block
toBlock(response) == V("Struct", "Block", response.n, <<GoString(response.s)>>)


(***************************************************************************)
(* The typed accessors.  An accessor is described by the method it names,  *)
(* the parameters it passes, the target it hands to call and the shape of  *)
(* the code around that call.                                              *)
(***************************************************************************)
Accessor(name, method, shape, target, params) ==
    [name |-> name, method |-> method, shape |-> shape, target |-> target,
     params |-> params]

\* fmt.Sprintf("0x%x", data) for data a sequence of bytes: two digits a byte
RECURSIVE HexBytes(_)
HexBytes(bytes) ==
    IF bytes = <<>> THEN ""
    ELSE HexDigit[(Head(bytes) \div 16) + 1] \o HexDigit[(Head(bytes) % 16) + 1]
         \o HexBytes(Tail(bytes))

\* Call and RawCall themselves, called with a method and any parameters
Call(method, args) ==
    Accessor("Call", method, "raw", "json.RawMessage", Variadic(args))
RawCall(method, args) ==
    Accessor("RawCall", method, "raw", "json.RawMessage", Variadic(args))
\* call with a nil target
callNilTarget(method, args) ==
    Accessor("call", method, "nil", "nil", Variadic(args))

Chain3ClientVersion ==
    Accessor("Chain3ClientVersion", "chain3_clientVersion", "value", "string", Variadic(<<>>))
Chain3Sha3(bytes) ==
    Accessor("Chain3Sha3", "chain3_sha3", "value", "string",
             Variadic(<<GoString("0x" \o HexBytes(bytes))>>))
NetVersion ==
    Accessor("NetVersion", "net_version", "value", "string", Variadic(<<>>))
NetListening ==
    Accessor("NetListening", "net_listening", "value", "bool", Variadic(<<>>))
NetPeerCount ==
    Accessor("NetPeerCount", "net_peerCount", "ParseInt", "string", Variadic(<<>>))
MoacProtocolVersion ==
    Accessor("MoacProtocolVersion", "mc_protocolVersion", "value", "string", Variadic(<<>>))
MoacSyncing ==
    Accessor("MoacSyncing", "mc_syncing", "syncing", "Syncing", Variadic(<<>>))
MoacCoinbase ==
    Accessor("MoacCoinbase", "mc_coinbase", "value", "string", Variadic(<<>>))
MoacMining ==
    Accessor("MoacMining", "mc_mining", "value", "bool", Variadic(<<>>))
MoacHashrate ==
    Accessor("MoacHashrate", "mc_hashrate", "ParseInt", "string", Variadic(<<>>))
MoacGasPrice ==
    Accessor("MoacGasPrice", "mc_gasPrice", "ParseBigInt", "string", Variadic(<<>>))
MoacAccounts ==
    Accessor("MoacAccounts", "mc_accounts", "list", "[]string", Variadic(<<>>))
MoacBlockNumber ==
    Accessor("MoacBlockNumber", "mc_blockNumber", "ParseInt", "string", Variadic(<<>>))
MoacGetBalance(address, block) ==
    Accessor("MoacGetBalance", "mc_getBalance", "ParseBigInt", "string",
             Variadic(<<GoString(address), GoString(block)>>))
MoacGetStorageAt(addr, position, tag) ==
    Accessor("MoacGetStorageAt", "mc_getStorageAt", "value", "string",
             Variadic(<<GoString(addr), GoString(IntToHex(position)), GoString(tag)>>))
MoacGetTransactionCount(address, block) ==
    Accessor("MoacGetTransactionCount", "mc_getTransactionCount", "ParseInt", "string",
             Variadic(<<GoString(address), GoString(block)>>))
MoacGetBlockTransactionCountByHash(hash) ==
    Accessor("MoacGetBlockTransactionCountByHash", "mc_getBlockTransactionCountByHash",
             "ParseInt", "string", Variadic(<<GoString(hash)>>))
MoacGetBlockTransactionCountByNumber(number) ==
    Accessor("MoacGetBlockTransactionCountByNumber", "mc_getBlockTransactionCountByNumber",
             "ParseInt", "string", Variadic(<<GoString(IntToHex(number))>>))
MoacGetUncleCountByBlockHash(hash) ==
    Accessor("MoacGetUncleCountByBlockHash", "mc_getUncleCountByBlockHash",
             "ParseInt", "string", Variadic(<<GoString(hash)>>))
MoacGetUncleCountByBlockNumber(number) ==
    Accessor("MoacGetUncleCountByBlockNumber", "mc_getUncleCountByBlockNumber",
             "ParseInt", "string", Variadic(<<GoString(IntToHex(number))>>))
MoacGetCode(address, block) ==
    Accessor("MoacGetCode", "mc_getCode", "value", "string",
             Variadic(<<GoString(address), GoString(block)>>))
MoacSign(address, message) ==
    Accessor("MoacSign", "mc_sign", "value", "string",
             Variadic(<<GoString(address), GoString(message)>>))
MoacSendTransaction(transaction) ==
    Accessor("MoacSendTransaction", "mc_sendTransaction", "value", "string",
             Variadic(<<transaction>>))
MoacSendRawTransaction(raw) ==
    Accessor("MoacSendRawTransaction", "mc_sendRawTransaction", "value", "string",
             Variadic(<<GoString(raw)>>))
MoacCall(transaction, tag) ==
    Accessor("MoacCall", "mc_call", "value", "string",
             Variadic(<<transaction, GoString(tag)>>))
MoacEstimateGas(transaction) ==
    Accessor("MoacEstimateGas", "mc_estimateGas", "ParseInt", "string",
             Variadic(<<transaction>>))
getBlock(method, withTransactions, args) ==
    Accessor("getBlock", method, "block",
             IF withTransactions THEN "proxyBlockWithTransactions"
             ELSE "proxyBlockWithoutTransactions",
             Variadic(args))
MoacGetBlockByHash(hash, withTransactions) ==
    [getBlock("mc_getBlockByHash", withTransactions,
              <<GoString(hash), GoBool(withTransactions)>>)
     EXCEPT !.name = "MoacGetBlockByHash"]
MoacGetBlockByNumber(number, withTransactions) ==
    [getBlock("mc_getBlockByNumber", withTransactions,
              <<GoString(IntToHex(number)), GoBool(withTransactions)>>)
     EXCEPT !.name = "MoacGetBlockByNumber"]
getTransaction(method, args) ==
    Accessor("getTransaction", method, "transaction", "Transaction", Variadic(args))
MoacGetTransactionByHash(hash) ==
    [getTransaction("mc_getTransactionByHash", <<GoString(hash)>>)
     EXCEPT !.name = "MoacGetTransactionByHash"]
MoacGetTransactionByBlockHashAndIndex(blockHash, transactionIndex) ==
    [getTransaction("mc_getTransactionByBlockHashAndIndex",
                    <<GoString(blockHash), GoString(IntToHex(transactionIndex))>>)
     EXCEPT !.name = "MoacGetTransactionByBlockHashAndIndex"]
MoacGetTransactionByBlockNumberAndIndex(blockNumber, transactionIndex) ==
    [getTransaction("mc_getTransactionByBlockNumberAndIndex",
                    <<GoString(IntToHex(blockNumber)), GoString(IntToHex(transactionIndex))>>)
     EXCEPT !.name = "MoacGetTransactionByBlockNumberAndIndex"]
MoacGetTransactionReceipt(hash) ==
    Accessor("MoacGetTransactionReceipt", "mc_getTransactionReceipt", "receipt",
             "TransactionReceipt", Variadic(<<GoString(hash)>>))
MoacGetCompilers ==
    Accessor("MoacGetCompilers", "mc_getCompilers", "list", "[]string", Variadic(<<>>))
MoacNewFilter(params) ==
    Accessor("MoacNewFilter", "mc_newFilter", "value", "string", Variadic(<<params>>))
MoacNewBlockFilter ==
    Accessor("MoacNewBlockFilter", "mc_newBlockFilter", "value", "string", Variadic(<<>>))
MoacNewPendingTransactionFilter ==
    Accessor("MoacNewPendingTransactionFilter", "mc_newPendingTransactionFilter",
             "value", "string", Variadic(<<>>))
MoacUninstallFilter(filterID) ==
    Accessor("MoacUninstallFilter", "mc_uninstallFilter", "value", "bool",
             Variadic(<<GoString(filterID)>>))
MoacGetFilterChanges(filterID) ==
    Accessor("MoacGetFilterChanges", "mc_getFilterChanges", "list", "[]Log",
             Variadic(<<GoString(filterID)>>))
MoacGetFilterLogs(filterID) ==
    Accessor("MoacGetFilterLogs", "mc_getFilterLogs", "list", "[]Log",
             Variadic(<<GoString(filterID)>>))
MoacGetLogs(params) ==
    Accessor("MoacGetLogs", "mc_getLogs", "list", "[]Log", Variadic(<<params>>))


(***************************************************************************)
(* What follows rpc.Call in call and in each accessor.  cr is what Call    *)
(* returned, [result, err]; the value is [val, err], what the accessor     *)
(* returns.                                                                *)
(***************************************************************************)
NoValue == V("NoValue", "", 0, <<>>)

\* call(method, target, params...): val is what target holds afterwards
call(cr, target, init) ==
    IF cr.err # NoErr THEN [val |-> init, err |-> cr.err]
    ELSE IF target = "nil" THEN [val |-> init, err |-> NoErr]
    ELSE Unmarshal(cr.result, target, init)

\* var x T; err := rpc.call(method, &x, ...); return x, err
ReturnValue(cr, target) == call(cr, target, Zero(target))

\* if err := rpc.call(method, &response, ...); err != nil { return 0, err }
\* return ParseInt(response)
ReturnParseInt(cr) ==
    LET c == call(cr, "string", Zero("string"))
    IN  IF c.err # NoErr THEN [val |-> GoInt(0), err |-> c.err]
        ELSE ParseInt(c.val.s)

ReturnParseBigInt(cr) ==
    LET c == call(cr, "string", Zero("string"))
    IN  IF c.err # NoErr THEN [val |-> GoBigInt(0), err |-> c.err]
        ELSE ParseBigInt(c.val.s)

\* list := []T{}; err := rpc.call(method, &list, ...); return list, err
ReturnList(cr, target) == call(cr, target, Slice(<<>>))

\* ReturnSyncing without the comparison with false
ReturnSyncingAlwaysUnmarshal(cr) ==
    IF cr.err # NoErr THEN [val |-> NilPtr, err |-> cr.err]
    ELSE LET u == Unmarshal(cr.result, "Syncing", GoStruct("Syncing", FALSE))
         IN  [val |-> Ptr(u.val), err |-> u.err]

ReturnSyncing(cr) ==
    IF cr.err # NoErr THEN [val |-> NilPtr, err |-> cr.err]
    ELSE IF cr.result = RawMessage(JFalse)
    THEN [val |-> Ptr(GoStruct("Syncing", FALSE)), err |-> NoErr]
    ELSE LET u == Unmarshal(cr.result, "Syncing", GoStruct("Syncing", FALSE))
         IN  [val |-> Ptr(u.val), err |-> u.err]

ReturnBlock(cr, target) ==
    LET c == call(cr, target, GoStruct(target, FALSE))
    IN  IF c.err # NoErr THEN [val |-> NilPtr, err |-> c.err]
        ELSE [val |-> Ptr(toBlock(c.val)), err |-> NoErr]

ReturnTransaction(cr) ==
    LET c == call(cr, "Transaction", GoStruct("Transaction", FALSE))
    IN  [val |-> Ptr(c.val), err |-> c.err]

ReturnReceipt(cr) ==
    LET c == call(cr, "TransactionReceipt", GoStruct("TransactionReceipt", FALSE))
    IN  IF c.err # NoErr THEN [val |-> NilPtr, err |-> c.err]
        ELSE [val |-> Ptr(c.val), err |-> NoErr]

AccessorReturn(i, cr) ==
    CASE i.shape = "raw" -> [val |-> cr.result, err |-> cr.err]
      [] i.shape = "nil" -> [val |-> NoValue, err |-> call(cr, "nil", NoValue).err]
      [] i.shape = "value" -> ReturnValue(cr, i.target)
      [] i.shape = "ParseInt" -> ReturnParseInt(cr)
      [] i.shape = "ParseBigInt" -> ReturnParseBigInt(cr)
      [] i.shape = "list" -> ReturnList(cr, i.target)
      [] i.shape = "syncing" -> ReturnSyncing(cr)
      [] i.shape = "block" -> ReturnBlock(cr, i.target)
      [] i.shape = "transaction" -> ReturnTransaction(cr)
      [] i.shape = "receipt" -> ReturnReceipt(cr)

\* the declared result type of an accessor
ResultType(i) ==
    CASE i.shape = "raw" -> "json.RawMessage"
      [] i.shape = "nil" -> "error"
      [] i.shape = "value" -> i.target
      [] i.shape = "ParseInt" -> "int"
      [] i.shape = "ParseBigInt" -> "big.Int"
      [] i.shape = "list" -> i.target
      [] i.shape = "syncing" -> "*Syncing"
      [] i.shape = "block" -> "*Block"
      [] i.shape = "transaction" -> "*Transaction"
      [] i.shape = "receipt" -> "*TransactionReceipt"

(***************************************************************************)
(* The pieces of Call.                                                     *)
(***************************************************************************)
NewRequest(method, params) == ethRequest(1, "2.0", method, params)

ContentType == "application/json"

\* a response whose Body yields body ("ok") or fails to be read ("readerr")
Response(state, body) == V("Response", state, 0, <<body>>)

\* ioutil.ReadAll(response.Body)
ReadAll(response) ==
    IF response.s = "ok" THEN [val |-> response.a[1], err |-> NoErr]
    ELSE [val |-> Absent, err |-> ReadError]

\* fmt.Sprintf("%s\nRequest: %s\nResponse: %s\n", method, body, data)
LogLine(method, body, bytes) == [method |-> method, request |-> body, response |-> bytes]

\* CallDecode returning the result whenever there is one, before it looks at
\* the error
CallDecodeResultFirst(bytes) ==
    LET u == UnmarshalResponse(bytes)
        resp == u.val
    IN  IF u.err # NoErr THEN [result |-> NilRaw, err |-> u.err]
        ELSE IF resp.Result # NilRaw THEN [result |-> resp.Result, err |-> NoErr]
        ELSE IF resp.Error # NilPtr
        THEN [result |-> NilRaw,
              err |-> MoacError(resp.Error.a[1].n, resp.Error.a[1].s)]
        ELSE [result |-> resp.Result, err |-> NoErr]

\* CallDecode refusing an envelope that holds neither a result nor an error
CallDecodeRequireResult(bytes) ==
    LET u == UnmarshalResponse(bytes)
        resp == u.val
    IN  IF u.err # NoErr THEN [result |-> NilRaw, err |-> u.err]
        ELSE IF resp.Error # NilPtr
        THEN [result |-> NilRaw,
              err |-> MoacError(resp.Error.a[1].n, resp.Error.a[1].s)]
        ELSE IF resp.Result = NilRaw
        THEN [result |-> NilRaw, err |-> Err("errors.errorString", 0, "empty response")]
        ELSE [result |-> resp.Result, err |-> NoErr]

\* from new(ethResponse) to the return of Call
CallDecode(bytes) ==
    LET u == UnmarshalResponse(bytes)
        resp == u.val
    IN  IF u.err # NoErr THEN [result |-> NilRaw, err |-> u.err]
        ELSE IF resp.Error # NilPtr
        THEN [result |-> NilRaw,
              err |-> MoacError(resp.Error.a[1].n, resp.Error.a[1].s)]
        ELSE [result |-> resp.Result, err |-> NoErr]


(***************************************************************************)
(* Construction.                                                           *)
(***************************************************************************)
WithHttpClient(client) == [opt |-> "WithHttpClient", s |-> client, b |-> FALSE]
WithLogger(l) == [opt |-> "WithLogger", s |-> l, b |-> FALSE]
WithDebug(enabled) == [opt |-> "WithDebug", s |-> "", b |-> enabled]

Apply(option, r) ==
    CASE option.opt = "WithHttpClient" -> [r EXCEPT !.client = option.s]
      [] option.opt = "WithLogger" -> [r EXCEPT !.log = option.s]
      [] option.opt = "WithDebug" -> [r EXCEPT !.Debug = option.b]

RECURSIVE ApplyAll(_, _)
ApplyAll(options, r) ==
    IF options = <<>> THEN r ELSE ApplyAll(Tail(options), Apply(Head(options), r))

New(url, options) ==
    ApplyAll(options, [url |-> url, client |-> "http.DefaultClient",
                       log |-> "log.New(os.Stderr)", Debug |-> FALSE])

URL == "http://127.0.0.1:8545"

(***************************************************************************)
(* The callers' arguments and the transport's answers.                     *)
(***************************************************************************)
Procs == {1, 2}

Strings == {"0xa1", "latest"}
Ints == 0..MaxInt
ByteSeqs == {<<>>, <<26>>}
Transactions == {GoStruct("T", TRUE)}
Filters == {GoStruct("FilterParams", TRUE)}
RawParams == {GoString("0xa1"), GoBool(TRUE), GoChan}
ParamLists == UNION {[1..n -> RawParams] : n \in 0..MaxParams}

Invocations ==
    {Chain3ClientVersion, NetVersion, NetListening, NetPeerCount,
     MoacProtocolVersion, MoacSyncing, MoacCoinbase, MoacMining, MoacHashrate,
     MoacGasPrice, MoacAccounts, MoacBlockNumber, MoacGetCompilers,
     MoacNewBlockFilter, MoacNewPendingTransactionFilter}
    \cup {Call("mc_blockNumber", l) : l \in ParamLists}
    \cup {RawCall("mc_syncing", l) : l \in ParamLists}
    \cup {callNilTarget("mc_mining", l) : l \in ParamLists}
    \cup {getTransaction("mc_getTransactionByHash", l) : l \in {<<>>}}
    \cup {Chain3Sha3(b) : b \in ByteSeqs}
    \cup {MoacGetBalance(a, b) : a \in Strings, b \in Strings}
    \cup {MoacGetStorageAt(a, n, t) : a \in Strings, n \in Ints, t \in Strings}
    \cup {MoacGetTransactionCount(a, b) : a \in Strings, b \in Strings}
    \cup {MoacGetBlockTransactionCountByHash(h) : h \in Strings}
    \cup {MoacGetBlockTransactionCountByNumber(n) : n \in Ints}
    \cup {MoacGetUncleCountByBlockHash(h) : h \in Strings}
    \cup {MoacGetUncleCountByBlockNumber(n) : n \in Ints}
    \cup {MoacGetCode(a, b) : a \in Strings, b \in Strings}
    \cup {MoacSign(a, d) : a \in Strings, d \in Strings}
    \cup {MoacSendTransaction(t) : t \in Transactions}
    \cup {MoacSendRawTransaction(d) : d \in Strings}
    \cup {MoacCall(t, g) : t \in Transactions, g \in Strings}
    \cup {MoacEstimateGas(t) : t \in Transactions}
    \cup {MoacGetBlockByHash(h, w) : h \in Strings, w \in BOOLEAN}
    \cup {MoacGetBlockByNumber(n, w) : n \in Ints, w \in BOOLEAN}
    \cup {MoacGetTransactionByHash(h) : h \in Strings}
    \cup {MoacGetTransactionByBlockHashAndIndex(h, n) : h \in Strings, n \in Ints}
    \cup {MoacGetTransactionByBlockNumberAndIndex(m, n) : m \in Ints, n \in Ints}
    \cup {MoacGetTransactionReceipt(h) : h \in Strings}
    \cup {MoacNewFilter(f) : f \in Filters}
    \cup {MoacUninstallFilter(f) : f \in Strings}
    \cup {MoacGetFilterChanges(f) : f \in Strings}
    \cup {MoacGetFilterLogs(f) : f \in Strings}
    \cup {MoacGetLogs(f) : f \in Filters}

RpcErrors == {JErrorObject(-32000, "rejected"), JErrorObject(0, "")}
ErrorMembers == {Absent, JNull, JString("oops")} \cup RpcErrors
ResultMembers ==
    {Absent, JNull, JFalse, JTrue, JString("0x1a"), JString("0xzz"),
     JArray(<<>>), JArray(<<JString("0xa1")>>),
     JArray(<<JString("0xa1"), JNumber(7)>>), JArray(<<JObject("ok")>>),
     JObject("ok"), JObject("bad")}
Bodies ==
    {Malformed, JNull, JArray(<<>>)}
    \cup {JEnvelope(r, e) : r \in ResultMembers, e \in ErrorMembers}
TransportErrors ==
    {Err("net.OpError", 0, "connection refused"), Err("url.Error", 0, "timeout")}

\* what Post returns: (response, err)
Replies ==
    {[resp |-> Response("ok", b), err |-> NoErr] : b \in Bodies}
    \cup {[resp |-> Response("readerr", Malformed), err |-> NoErr]}
    \cup {[resp |-> NilResponse, err |-> e] : e \in TransportErrors}
    \cup {[resp |-> Response("ok", Malformed), err |-> e] : e \in TransportErrors}
    \cup {[resp |-> NilResponse, err |-> NoErr]}

\* The runs with two goroutines on one client take their calls and their
\* answers from these: a call for each path through Call and its callers.
ConcWorkload == {MoacSyncing, MoacGetLogs(GoStruct("FilterParams", TRUE)),
                 Call("mc_blockNumber", <<GoChan>>)}
ConcReplies ==
    {[resp |-> Response("ok", b), err |-> NoErr] :
        b \in {Malformed, JEnvelope(JFalse, Absent), JEnvelope(JNull, Absent),
               JEnvelope(JObject("ok"), JErrorObject(-32000, "rejected"))}}
    \cup {[resp |-> Response("readerr", Malformed), err |-> NoErr],
          [resp |-> NilResponse, err |-> Err("net.OpError", 0, "connection refused")],
          [resp |-> NilResponse, err |-> NoErr]}

\* the calls the callers make and the answers Post gives them
Workload == IF Cardinality(callers) = 1 THEN Invocations ELSE ConcWorkload
Wire == IF Cardinality(callers) = 1 THEN Replies ELSE ConcReplies

(***************************************************************************)
(* The state machine.  pc[p] is where goroutine p stands: "idle", "posted" *)
(* (Post has returned), "read" (the body is read), "called" (Call has      *)
(* returned), "done" (the accessor has returned) or "panic".               *)
(***************************************************************************)
NoInvocation == Accessor("", "", "", "", NilSlice)
NoReply == [resp |-> NilResponse, err |-> NoErr]
NoReturn == [result |-> NilRaw, err |-> NoErr]
NoResult == [val |-> NoValue, err |-> NoErr]

TypeOK ==
    /\ callers \subseteq Procs
    /\ pc \in [Procs -> {"idle", "posted", "read", "called", "done", "panic"}]
    /\ crashed \in BOOLEAN
    /\ rpc.Debug \in BOOLEAN

InitLocals ==
    /\ pc = [p \in Procs |-> "idle"]
    /\ inv = [p \in Procs |-> NoInvocation]
    /\ reply = [p \in Procs |-> NoReply]
    /\ data = [p \in Procs |-> Absent]
    /\ cret = [p \in Procs |-> NoReturn]
    /\ ret = [p \in Procs |-> NoResult]
    /\ sent = [p \in Procs |-> <<>>]
    /\ logged = [p \in Procs |-> <<>>]
    /\ crashed = FALSE

InitClient ==
    \E d \in BOOLEAN :
        rpc = New(URL, <<WithHttpClient("transport"), WithLogger("logger"), WithDebug(d)>>)

\* one goroutine, any call, any answer
Init ==
    /\ InitClient
    /\ InitLocals
    /\ callers = {1}

\* two goroutines on one client
InitConc ==
    /\ InitClient
    /\ InitLocals
    /\ callers = Procs

\* an accessor is entered and Call runs up to the return of Post
CallPost(p) ==
    /\ ~crashed
    /\ p \in callers
    /\ pc[p] = "idle"
    /\ \E i \in Workload :
         LET request == NewRequest(i.method, i.params)
             m == Marshal(request)
         IN  /\ inv' = [inv EXCEPT ![p] = i]
             /\ IF m.err # NoErr
                THEN /\ cret' = [cret EXCEPT ![p] = [result |-> NilRaw, err |-> m.err]]
                     /\ pc' = [pc EXCEPT ![p] = "called"]
                     /\ UNCHANGED <<sent, reply>>
                ELSE /\ sent' = [sent EXCEPT ![p] =
                                   Append(@, [url |-> rpc.url,
                                              contentType |-> ContentType,
                                              body |-> m.val])]
                     /\ \E r \in Wire : reply' = [reply EXCEPT ![p] = r]
                     /\ pc' = [pc EXCEPT ![p] = "posted"]
                     /\ UNCHANGED cret
    /\ UNCHANGED <<rpc, callers, data, ret, logged, crashed>>

\* CallRead posting once more after a Post that failed
CallReadRetry(p) ==
    /\ ~crashed
    /\ pc[p] = "posted"
    /\ reply[p].err # NoErr
    /\ Len(sent[p]) < 2
    /\ sent' = [sent EXCEPT ![p] = Append(@, @[1])]
    /\ \E r \in Wire : reply' = [reply EXCEPT ![p] = r]
    /\ UNCHANGED <<rpc, callers, pc, inv, data, cret, ret, logged, crashed>>

\* from the return of Post to the body read
CallRead(p) ==
    /\ ~crashed
    /\ pc[p] = "posted"
    /\ LET r == reply[p] IN
         IF r.err # NoErr
         THEN /\ cret' = [cret EXCEPT ![p] = [result |-> NilRaw, err |-> r.err]]
              /\ pc' = [pc EXCEPT ![p] = "called"]
              /\ UNCHANGED <<data, crashed>>
         ELSE IF r.resp = NilResponse
         THEN /\ pc' = [pc EXCEPT ![p] = "panic"]
              /\ crashed' = TRUE
              /\ UNCHANGED <<data, cret>>
         ELSE LET d == ReadAll(r.resp) IN
              IF d.err # NoErr
              THEN /\ cret' = [cret EXCEPT ![p] = [result |-> NilRaw, err |-> d.err]]
                   /\ pc' = [pc EXCEPT ![p] = "called"]
                   /\ UNCHANGED <<data, crashed>>
              ELSE /\ data' = [data EXCEPT ![p] = d.val]
                   /\ pc' = [pc EXCEPT ![p] = "read"]
                   /\ UNCHANGED <<cret, crashed>>
    /\ UNCHANGED <<rpc, callers, inv, reply, ret, sent, logged>>

\* CallDecodeStep logging only the calls that succeed
CallDecodeStepLogOnSuccess(p) ==
    /\ ~crashed
    /\ pc[p] = "read"
    /\ logged' = [logged EXCEPT ![p] =
                    IF rpc.Debug /\ CallDecode(data[p]).err = NoErr
                    THEN Append(@, LogLine(inv[p].method, sent[p][1].body, data[p]))
                    ELSE @]
    /\ cret' = [cret EXCEPT ![p] = CallDecode(data[p])]
    /\ pc' = [pc EXCEPT ![p] = "called"]
    /\ UNCHANGED <<rpc, callers, inv, reply, data, ret, sent, crashed>>

\* CallDecodeStep switching the client's debug flag off once it has logged
CallDecodeStepClearsDebug(p) ==
    /\ ~crashed
    /\ pc[p] = "read"
    /\ logged' = [logged EXCEPT ![p] =
                    IF rpc.Debug
                    THEN Append(@, LogLine(inv[p].method, sent[p][1].body, data[p]))
                    ELSE @]
    /\ rpc' = [rpc EXCEPT !.Debug = FALSE]
    /\ cret' = [cret EXCEPT ![p] = CallDecode(data[p])]
    /\ pc' = [pc EXCEPT ![p] = "called"]
    /\ UNCHANGED <<callers, inv, reply, data, ret, sent, crashed>>

\* the debug line, the envelope and the return of Call
CallDecodeStep(p) ==
    /\ ~crashed
    /\ pc[p] = "read"
    /\ logged' = [logged EXCEPT ![p] =
                    IF rpc.Debug
                    THEN Append(@, LogLine(inv[p].method, sent[p][1].body, data[p]))
                    ELSE @]
    /\ cret' = [cret EXCEPT ![p] = CallDecode(data[p])]
    /\ pc' = [pc EXCEPT ![p] = "called"]
    /\ UNCHANGED <<rpc, callers, inv, reply, data, ret, sent, crashed>>

\* the accessor returns
Return(p) ==
    /\ ~crashed
    /\ pc[p] = "called"
    /\ ret' = [ret EXCEPT ![p] = AccessorReturn(inv[p], cret[p])]
    /\ pc' = [pc EXCEPT ![p] = "done"]
    /\ UNCHANGED <<rpc, callers, inv, reply, data, cret, sent, logged, crashed>>

\* the caller is ready for its next call; nothing of the last one is kept
Finish(p) ==
    /\ ~crashed
    /\ pc[p] = "done"
    /\ pc' = [pc EXCEPT ![p] = "idle"]
    /\ inv' = [inv EXCEPT ![p] = NoInvocation]
    /\ reply' = [reply EXCEPT ![p] = NoReply]
    /\ data' = [data EXCEPT ![p] = Absent]
    /\ cret' = [cret EXCEPT ![p] = NoReturn]
    /\ ret' = [ret EXCEPT ![p] = NoResult]
    /\ sent' = [sent EXCEPT ![p] = <<>>]
    /\ logged' = [logged EXCEPT ![p] = <<>>]
    /\ UNCHANGED <<rpc, callers, crashed>>

Next ==
    \E p \in Procs :
        \/ CallPost(p)
        \/ CallRead(p)
        \/ CallDecodeStep(p)
        \/ Return(p)
        \/ Finish(p)

Spec == Init /\ [][Next]_vars

SpecConc == InitConc /\ [][Next]_vars


(***************************************************************************)
(* Properties.                                                             *)
(***************************************************************************)
\* Call has returned to goroutine p
Returned(p) == pc[p] \in {"called", "done"}

\* Post was called and answered with a response and no error
Answered(p) ==
    /\ sent[p] # <<>>
    /\ reply[p].err = NoErr
    /\ reply[p].resp.k = "Response"

\* ... and the body of that response was read to its end
BodyRead(p) == Answered(p) /\ reply[p].resp.s = "ok"

\* ... and that body is a response envelope
GotEnvelope(p) == BodyRead(p) /\ reply[p].resp.a[1].k = "envelope"

ResultMember(p) == reply[p].resp.a[1].a[1]
ErrorMember(p) == reply[p].resp.a[1].a[2]

TypedShapes == {"value", "ParseInt", "ParseBigInt", "list", "syncing", "block",
                "transaction", "receipt"}

\* C1: when the envelope's error member is populated, Call fails with an
\* error of exactly that code and message and returns no result, whether or
\* not the result member is present too, and the accessor (or Call, RawCall
\* or call itself) hands that same error to its caller.
C1_RpcErrorPassedThrough ==
    \A p \in Procs :
        (Returned(p) /\ GotEnvelope(p) /\ ErrorMember(p).k = "errobj") =>
            /\ cret[p] = [result |-> NilRaw,
                          err |-> [kind |-> "MoacError",
                                   code |-> ErrorMember(p).n,
                                   message |-> ErrorMember(p).s]]
            /\ pc[p] = "done" => ret[p].err = cret[p].err

\* C1 witness: a typed accessor has returned the node's error -32000 from an
\* envelope that holds a result as well.
C1_Witness ==
    \E p \in Procs :
        /\ pc[p] = "done"
        /\ GotEnvelope(p)
        /\ ErrorMember(p) = JErrorObject(-32000, "rejected")
        /\ ResultMember(p) = JObject("ok")
        /\ inv[p].shape \in TypedShapes
        /\ ret[p].err = MoacError(-32000, "rejected")

\* C2: every typed accessor that returns a non-nil error returns the zero
\* value of its result type with it: nil for a pointer, and for a list nil
\* or, read generously, the empty list.
C2_ZeroValueWithError ==
    \A p \in Procs :
        (pc[p] = "done" /\ inv[p].shape \in TypedShapes /\ ret[p].err # NoErr) =>
            \/ ret[p].val = Zero(ResultType(inv[p]))
            \/ inv[p].shape = "list" /\ ret[p].val = Slice(<<>>)

\* C3: every invocation of Call performs exactly one Post.
C3_ExactlyOnePost ==
    \A p \in Procs : Returned(p) => Len(sent[p]) = 1

\* C3 as amended: a Call whose parameters serialize performs exactly one
\* Post and one whose parameters do not serialize performs none; no Call
\* ever performs a second Post, and the error of a failed Post is what
\* Call returns.
C3_OnePostIfSerializable ==
    \A p \in Procs :
        /\ Len(sent[p]) <= 1
        /\ Returned(p) =>
             Len(sent[p]) =
                 IF \A k \in 1..Len(inv[p].params.a) : inv[p].params.a[k].k # "Chan"
                 THEN 1 ELSE 0
        /\ (Returned(p) /\ sent[p] # <<>> /\ reply[p].err # NoErr) =>
             cret[p] = [result |-> NilRaw, err |-> reply[p].err]

\* C3 witness: Call has returned after a Post that failed with a response.
C3_Witness ==
    \E p \in Procs :
        /\ Returned(p)
        /\ Len(sent[p]) = 1
        /\ reply[p].resp.k = "Response"
        /\ reply[p].err.kind = "url.Error"
        /\ cret[p].err = reply[p].err

\* C4: the debug flag alone decides the number of log lines of a call that
\* reached the transport: one when it is set, whatever the outcome
\* (transport failure, body read failure, decode failure, RPC error or
\* success), and none when it is not.
C4_OneLineIffDebug ==
    \A p \in Procs :
        (Returned(p) /\ sent[p] # <<>>) =>
            Len(logged[p]) = IF rpc.Debug THEN 1 ELSE 0

\* C4 as amended: a call logs exactly one line, of the method, the request
\* body and the response body, when the debug flag is set and the response
\* body was read to its end, whether the envelope then decodes to a result,
\* to an RPC error or not at all; it logs nothing when the flag is not set,
\* when the request does not serialize, when Post fails and when the body
\* cannot be read.
C4_OneLineIffDebugAndBodyRead ==
    \A p \in Procs :
        Returned(p) =>
            logged[p] =
                IF rpc.Debug /\ BodyRead(p)
                THEN <<[method |-> inv[p].method,
                        request |-> sent[p][1].body,
                        response |-> reply[p].resp.a[1]]>>
                ELSE <<>>

\* C4 witness: with the debug flag set, a call that failed with an RPC
\* error has logged its line.
C4_Witness ==
    \E p \in Procs :
        /\ rpc.Debug
        /\ Returned(p)
        /\ cret[p].err.kind = "MoacError"
        /\ Len(logged[p]) = 1

\* C5: every request sent has id 1, version "2.0", the method, and as
\* params the list of the caller's parameters in order, the empty list when
\* there are none.
C5_ParamsAlwaysAList ==
    \A p \in Procs : \A k \in 1..Len(sent[p]) :
        LET members == sent[p][k].body.a IN
        /\ members[1] = JNumber(1)
        /\ members[2] = JString("2.0")
        /\ members[3] = JString(inv[p].method)
        /\ members[4].k = "array"
        /\ Len(members[4].a) = Len(inv[p].params.a)
        /\ \A h \in 1..Len(members[4].a) :
               members[4].a[h] = MarshalValue(inv[p].params.a[h])

\* C5 as amended: every request sent has id 1, version "2.0" and the
\* method; its params member is the list of the caller's parameters in
\* order when there is at least one, and null when there is none.
C5_ParamsListOrNull ==
    \A p \in Procs : \A k \in 1..Len(sent[p]) :
        LET members == sent[p][k].body.a IN
        /\ sent[p][k].url = URL
        /\ sent[p][k].contentType = "application/json"
        /\ members[1] = JNumber(1)
        /\ members[2] = JString("2.0")
        /\ members[3] = JString(inv[p].method)
        /\ IF Len(inv[p].params.a) = 0
           THEN members[4] = JNull
           ELSE /\ members[4].k = "array"
                /\ Len(members[4].a) = Len(inv[p].params.a)
                /\ \A h \in 1..Len(members[4].a) :
                       members[4].a[h] = MarshalValue(inv[p].params.a[h])

\* C5 witness: an accessor that passes no parameter has sent params null.
C5_Witness ==
    \E p \in Procs :
        /\ inv[p].name = "MoacNewBlockFilter"
        /\ Len(sent[p]) = 1
        /\ sent[p][1].body.a[4] = JNull

\* C6: Call succeeds only for an envelope with a result and no error, and
\* an envelope with neither is not reported as success by Call, RawCall or
\* call with a nil target.
C6_SuccessNeedsResult ==
    \A p \in Procs :
        /\ (Returned(p) /\ GotEnvelope(p) /\ cret[p].err = NoErr) =>
               /\ ResultMember(p) # Absent
               /\ ErrorMember(p).k \in {"absent", "null"}
        /\ (pc[p] = "done" /\ GotEnvelope(p) /\ inv[p].shape \in {"raw", "nil"}
              /\ ret[p].err = NoErr) =>
               ResultMember(p) # Absent

\* C6 as amended: Call looks at the error member only.  For an envelope it
\* succeeds exactly when the error member is absent or null, and then
\* returns the raw result as it is, nil when the result member is absent:
\* Call, RawCall and call with a nil target report an envelope with neither
\* member as a success.
C6_SuccessIffNoError ==
    \A p \in Procs :
        (Returned(p) /\ GotEnvelope(p)) =>
            /\ cret[p].err = NoErr <=> ErrorMember(p).k \in {"absent", "null"}
            /\ cret[p].err = NoErr =>
                 cret[p].result = IF ResultMember(p) = Absent THEN NilRaw
                                  ELSE [k |-> "Raw", s |-> "", n |-> 0,
                                        a |-> <<ResultMember(p)>>]
            /\ (pc[p] = "done" /\ inv[p].shape \in {"raw", "nil"}) =>
                 ret[p].err = cret[p].err

\* C6 witness: RawCall has returned a nil error for an envelope with
\* neither a result nor an error.
C6_Witness ==
    \E p \in Procs :
        /\ pc[p] = "done"
        /\ inv[p].name = "RawCall"
        /\ GotEnvelope(p)
        /\ ResultMember(p) = Absent
        /\ ErrorMember(p) = Absent
        /\ ret[p] = [val |-> NilRaw, err |-> NoErr]

\* C7: when the call succeeds, MoacSyncing returns the zero status and no
\* error for the raw result false, and for any other raw result what
\* unmarshaling it as a Syncing gives.
C7_SyncingFalseOrObject ==
    \A p \in Procs :
        (pc[p] = "done" /\ inv[p].name = "MoacSyncing" /\ cret[p].err = NoErr) =>
            IF GotEnvelope(p) /\ ResultMember(p) = JFalse
            THEN ret[p] = [val |-> Ptr(GoStruct("Syncing", FALSE)), err |-> NoErr]
            ELSE LET u == Unmarshal(cret[p].result, "Syncing", GoStruct("Syncing", FALSE))
                 IN  ret[p] = [val |-> Ptr(u.val), err |-> u.err]

\* C7 witness: MoacSyncing has returned the zero status for the result false.
C7_Witness ==
    \E p \in Procs :
        /\ pc[p] = "done"
        /\ inv[p].name = "MoacSyncing"
        /\ GotEnvelope(p)
        /\ ResultMember(p) = JFalse
        /\ ErrorMember(p) = Absent
        /\ ret[p] = [val |-> Ptr(GoStruct("Syncing", FALSE)), err |-> NoErr]

\* C8: MoacGetFilterChanges, MoacGetFilterLogs and MoacGetLogs return a
\* non-nil list on every successful call, for an empty array and for a null
\* result alike.
C8_LogsNeverNil ==
    \A p \in Procs :
        (pc[p] = "done" /\ inv[p].target = "[]Log" /\ ret[p].err = NoErr) =>
            ret[p].val.k = "Slice"

\* what the call i returns and logs when it runs alone on a client with
\* debug flag debug and Post answers r
Alone(i, r, debug) ==
    LET m == Marshal(NewRequest(i.method, i.params))
        d == ReadAll(r.resp)
        cr == IF m.err # NoErr THEN [result |-> NilRaw, err |-> m.err]
              ELSE IF r.err # NoErr THEN [result |-> NilRaw, err |-> r.err]
              ELSE IF d.err # NoErr THEN [result |-> NilRaw, err |-> d.err]
              ELSE CallDecode(d.val)
    IN  [ret |-> AccessorReturn(i, cr),
         logged |-> IF debug /\ m.err = NoErr /\ r.err = NoErr /\ d.err = NoErr
                    THEN <<LogLine(i.method, m.val, d.val)>>
                    ELSE <<>>]

\* C9: no step of any call changes the client (url, transport, logger,
\* debug flag), and with two goroutines calling in any interleaving each
\* finished call has returned and logged what it would have running alone
\* with its own request and the answer Post gave it.
C9_CallsIndependent ==
    /\ [][rpc' = rpc]_vars
    /\ [](\A p \in Procs :
            pc[p] = "done" =>
                /\ ret[p] = Alone(inv[p], reply[p], rpc.Debug).ret
                /\ logged[p] = Alone(inv[p], reply[p], rpc.Debug).logged)

\* C9 witness: with the debug flag set, one goroutine has finished a call
\* while the other, making another call, is between its Post and its return.
C9_Witness ==
    /\ callers = Procs
    /\ rpc.Debug
    /\ pc[1] = "done"
    /\ pc[2] = "read"
    /\ inv[1] # inv[2]
    /\ reply[1] # reply[2]
    /\ Len(logged[1]) = 1

\* C10: Call never reads the body of a nil response, whatever pair of
\* response and error Post returns.
C10_NoNilDereference ==
    \A p \in Procs : pc[p] # "panic"


====
